---- MODULE Spec2Model ----
(***************************************************************************)
(* Model of src/app.py: the monthly upload (upload_month_data) of a parsed *)
(* sales report into the customer and brandsale tables, one request per    *)
(* session, at the granularity of the handler's storage operations, and    *)
(* the read handlers over the two tables.                                  *)
(* Amounts are in hundredths (300.00 is 30000, 0.01 is 1).                 *)
(***************************************************************************)
EXTENDS Integers, Sequences, FiniteSets, TLC

\* ------------------------------------------------------------- bounds
MaxUploads == 2
MaxRows == 2
NSessions == 2
MaxLimit == 2

Sessions == 1..NSessions

\* ------------------------------------------------------------- text
Digits == {"0", "1", "2", "3", "4", "5", "6", "7", "8", "9"}
Whitespace == {" "}

DigitVal(c) ==
  CASE c = "0" -> 0 [] c = "1" -> 1 [] c = "2" -> 2 [] c = "3" -> 3
    [] c = "4" -> 4 [] c = "5" -> 5 [] c = "6" -> 6 [] c = "7" -> 7
    [] c = "8" -> 8 [] c = "9" -> 9

RECURSIVE lstrip(_)
lstrip(s) == IF s # <<>> /\ Head(s) \in Whitespace THEN lstrip(Tail(s)) ELSE s

RECURSIVE rstrip(_)
rstrip(s) ==
  IF s # <<>> /\ s[Len(s)] \in Whitespace
    THEN rstrip(SubSeq(s, 1, Len(s) - 1))
    ELSE s

\* str.strip()
strip(s) == rstrip(lstrip(s))

\* str.isdigit(): at least one character, all of them digits
isdigit(s) == Len(s) > 0 /\ \A i \in 1..Len(s) : s[i] \in Digits

\* ------------------------------------------------------------- cells
\* A cell of the DataFrame: missing (NaN) or a value.
NaNCode == [na |-> TRUE, v |-> <<>>]
NaNStr == [na |-> TRUE, v |-> ""]
NaNNum == [na |-> TRUE, v |-> 0]
Val(x) == [na |-> FALSE, v |-> x]

isna(cell) == cell.na
notna(cell) == ~ cell.na

\* str(code) of a code cell: NaN prints as "nan"
str(cell) == IF cell.na THEN <<"n", "a", "n">> ELSE cell.v

None == "None"

\* ------------------------------------------------------------- months
NoDate == [year |-> 0, month |-> 0, day |-> 0]

\* The %m field of strptime: 1[0-2] | 0[1-9] | [1-9], nothing left over.
MonthField(m) ==
  IF Len(m) = 2 /\ m[1] = "1" /\ m[2] \in {"0", "1", "2"} THEN 10 + DigitVal(m[2])
  ELSE IF Len(m) = 2 /\ m[1] = "0" /\ m[2] \in Digits \ {"0"} THEN DigitVal(m[2])
  ELSE IF Len(m) = 1 /\ m[1] \in Digits \ {"0"} THEN DigitVal(m[1])
  ELSE 0

\* The %Y field of strptime: exactly four digits.
YearField(y) ==
  1000 * DigitVal(y[1]) + 100 * DigitVal(y[2]) + 10 * DigitVal(y[3]) + DigitVal(y[4])

\* datetime.strptime(month_str, "%Y-%m"): [ok, date]
strptime(month_str) ==
  LET n == Len(month_str) IN
  IF /\ n \in {6, 7}
     /\ \A i \in 1..4 : month_str[i] \in Digits
     /\ month_str[5] = "-"
     /\ MonthField(SubSeq(month_str, 6, n)) # 0
     /\ YearField(month_str) >= 1
  THEN [ok |-> TRUE,
        date |-> [year |-> YearField(month_str),
                  month |-> MonthField(SubSeq(month_str, 6, n)),
                  day |-> 1]]
  ELSE [ok |-> FALSE, date |-> NoDate]

\* mutant: the ValueError is swallowed and the date is returned as it is
parse_month_to_date_Lenient(month_str) == [ok |-> TRUE, date |-> strptime(month_str).date]

\* parse_month_to_date: the first day of the month, or ValueError (ok = FALSE)
parse_month_to_date(month_str) ==
  LET dt == strptime(month_str) IN
  IF dt.ok THEN [ok |-> TRUE, date |-> [dt.date EXCEPT !.day = 1]]
           ELSE [ok |-> FALSE, date |-> NoDate]

\* ------------------------------------------------------------- inputs
brand_cols == <<"BrandA", "BrandB">>
BrandSet == {brand_cols[i] : i \in 1..Len(brand_cols)}

Code1001 == <<"1", "0", "0", "1">>
Code1002 == <<"1", "0", "0", "2">>

Row(code, salesman, total, a, b, count) ==
  [CustomerCode |-> code, Salesman |-> salesman, Total |-> total,
   brands |-> [c \in BrandSet |-> IF c = "BrandA" THEN a ELSE b],
   count |-> count]

\* code 1001, total 500, BrandA 300, BrandB 200, brand count 2
RowA == Row(Val(Code1001), Val("Ann"), Val(50000), Val(30000), Val(20000), Val(2))
\* code 1001 padded with a space, other cells missing, BrandA 0, BrandB 200
RowA0 == Row(Val(<<" ">> \o Code1001), NaNStr, NaNNum, Val(0), Val(20000), NaNNum)
\* code 1002, BrandA -5, BrandB 0.01
RowB == Row(Val(Code1002), Val("Bob"), Val(30000), Val(-500), Val(1), Val(1))
\* a subtotal row: no code, an amount under BrandA
RowNaN == Row(NaNCode, NaNStr, Val(80000), Val(30000), NaNNum, NaNNum)
\* a code read as a float: "1001.0"
RowText == Row(Val(Code1001 \o <<".", "0">>), Val("Ann"), Val(100), Val(100), NaNNum, Val(1))
\* a blank code
RowBlank == Row(Val(<<" ", " ">>), Val("Cy"), Val(100), NaNNum, Val(100), Val(1))

\* code 1002 and nothing else: every other cell is missing
RowBare == Row(Val(Code1002), NaNStr, NaNNum, NaNNum, NaNNum, NaNNum)

Rows == {RowA, RowA0, RowB, RowNaN, RowText, RowBlank, RowBare}

RECURSIVE SeqsUpTo(_, _)
SeqsUpTo(S, n) ==
  IF n = 0 THEN {<<>>}
  ELSE LET P == SeqsUpTo(S, n - 1) IN
       P \cup {Append(f, r) : f \in {g \in P : Len(g) = n - 1}, r \in S}

Files == SeqsUpTo(Rows, MaxRows)

Tok202401 == <<"2", "0", "2", "4", "-", "0", "1">>
Tok20241 == <<"2", "0", "2", "4", "-", "1">>
Tok202402 == <<"2", "0", "2", "4", "-", "0", "2">>
Tok202413 == <<"2", "0", "2", "4", "-", "1", "3">>
Tok2401 == <<"2", "4", "-", "0", "1">>

MonthTokens == {Tok202401, Tok20241, Tok202402, Tok202413, Tok2401}

\* ------------------------------------------------------------- state
VARIABLES
  customer,     \* the customer table: a set of Customer records
  brandsale,    \* the brandsale table: a set of BrandSale records
  sess,         \* per session: the request in flight and its local variables
  uploads,      \* number of upload requests made so far, repeats not counted
  latest,       \* history: per (month, code) the last upload that named the code
  prev          \* history: the store as the previous identical upload left it

vars == <<customer, brandsale, sess, uploads, latest, prev>>

NoPending == [cust |-> <<>>, sales |-> <<>>]
NoResponse == [status_code |-> 0, inserted_customers |-> 0, inserted_brand_sales |-> 0]
NoMap == [c \in {} |-> 0]

IdleSession ==
  [pc |-> "idle",
   purchase_month_str |-> <<>>,
   purchase_month |-> NoDate,
   file |-> <<>>,
   df |-> <<>>,
   cust_codes_in_file |-> {},
   customer_ids |-> {},
   existing_cust_code_map |-> NoMap,
   idx |-> 0,
   cust |-> 0,
   pending |-> NoPending,
   inserted_customers |-> 0,
   inserted_brand_sales |-> 0,
   response |-> NoResponse,
   before |-> {},
   deleted |-> 0,
   cust_commits |-> 0,
   line_commits |-> 0,
   lines_written |-> 0,
   failed_at |-> "none",
   endpoint |-> "none",
   offset |-> 0,
   limit |-> 0,
   body |-> <<>>]

\* ------------------------------------------------------------- tables
Max(S) == CHOOSE x \in S : \A y \in S : y <= x

\* the next value of an INTEGER PRIMARY KEY
NextId(table) == IF table = {} THEN 1 ELSE Max({r.id : r \in table}) + 1

Customer(id, customer_code, salesman, total_bought, brand_count) ==
  [id |-> id, customer_code |-> customer_code, salesman |-> salesman,
   total_bought |-> total_bought, brand_count |-> brand_count]

BrandSale(id, brand_code, customer_id, amount, purchase_month) ==
  [id |-> id, brand_code |-> brand_code, customer_id |-> customer_id,
   amount |-> amount, purchase_month |-> purchase_month]

CustomerById(table, id) == CHOOSE c \in table : c.id = id

\* session.commit() of the pending Customer writes: an insert takes the next id,
\* an update overwrites the three fields of its row
RECURSIVE FlushCustomers(_, _)
FlushCustomers(table, ops) ==
  IF ops = <<>> THEN table
  ELSE LET op == Head(ops) IN
       FlushCustomers(
         IF op.op = "insert"
           THEN table \cup {[op.rec EXCEPT !.id = NextId(table)]}
           ELSE {IF c.id = op.rec.id
                   THEN [c EXCEPT !.salesman = op.rec.salesman,
                                  !.total_bought = op.rec.total_bought,
                                  !.brand_count = op.rec.brand_count]
                   ELSE c : c \in table},
         Tail(ops))

\* session.commit() of the pending BrandSale rows, each taking the next id
RECURSIVE FlushBrandSales(_, _)
FlushBrandSales(table, rows) ==
  IF rows = <<>> THEN table
  ELSE FlushBrandSales(table \cup {[Head(rows) EXCEPT !.id = NextId(table)]}, Tail(rows))

\* session.rollback(): the uncommitted work of the session is dropped
Rollback(pending) == NoPending

\* mutants of the delete: none at all, one without the customer filter, one
\* without the month filter
DeleteBrandSales_None(table, pm, ids) == table
DeleteBrandSales_AllCustomers(table, pm, ids) ==
  {b \in table : b.purchase_month # pm}
DeleteBrandSales_AllMonths(table, pm, ids) ==
  {b \in table : b.customer_id \notin ids}

\* DELETE FROM brandsale WHERE purchase_month = :pm AND customer_id IN :ids
DeleteBrandSales(table, pm, ids) ==
  {b \in table : ~ (b.purchase_month = pm /\ b.customer_id \in ids)}

\* ------------------------------------------------------------- upload
\* set(str(code).strip() for code in df['CustomerCode'] if str(code).strip().isdigit())
CustCodesInFile(df) ==
  {strip(str(df[i].CustomerCode)) : i \in {j \in 1..Len(df) : isdigit(strip(str(df[j].CustomerCode)))}}

\* select(Customer).where(Customer.customer_code.in_(cust_codes_in_file))
ExistingCustomers(table, codes) == {c \in table : c.customer_code \in codes}

\* mutant: the loaded customers are never entered in the map
ExistingCustCodeMap_Empty(existing) == [c \in {} |-> 0]

\* {c.customer_code: c for c in existing_customers}: the last row of a code wins
ExistingCustCodeMap(existing) ==
  [code \in {c.customer_code : c \in existing} |->
     Max({c.id : c \in {d \in existing : d.customer_code = code}})]

\* mutant: only the missing-cell test is kept
RowQualifies_NotNa(row) == ~ isna(row.CustomerCode)

\* the row loop's test of a row: not skipped by either continue
RowQualifies(row) ==
  /\ isdigit(strip(str(row.CustomerCode)))
  /\ ~ isna(row.CustomerCode)

\* Customer(customer_code=..., salesman=..., total_bought=..., brand_count=...)
NewCustomer(cust_code, row) ==
  Customer(0, cust_code,
           IF notna(row.Salesman) THEN row.Salesman.v ELSE None,
           IF notna(row.Total) THEN row.Total.v ELSE 0,
           IF notna(row.count) THEN row.count.v ELSE 0)

\* mutant: the update assigns every field, a missing cell as its default
UpdatedCustomer_Overwrite(cust, row) ==
  Customer(cust.id, cust.customer_code,
           IF notna(row.Salesman) THEN row.Salesman.v ELSE None,
           IF notna(row.Total) THEN row.Total.v ELSE 0,
           IF notna(row.count) THEN row.count.v ELSE 0)

\* the update of an existing customer: a missing cell keeps the stored value
UpdatedCustomer(cust, row) ==
  Customer(cust.id, cust.customer_code,
           IF notna(row.Salesman) THEN row.Salesman.v ELSE cust.salesman,
           IF notna(row.Total) THEN row.Total.v ELSE cust.total_bought,
           IF notna(row.count) THEN row.count.v ELSE cust.brand_count)

\* mutant: >= in place of >
AmountQualifies_NonNegative(amount) == notna(amount) /\ amount.v >= 0

\* if pd.notna(amount) and amount > 0
AmountQualifies(amount) == notna(amount) /\ amount.v > 0

\* the BrandSale rows of one row of the file, in the order of the brand columns
RECURSIVE RowBrandSales(_, _, _, _)
RowBrandSales(row, cols, customer_id, purchase_month) ==
  IF cols = <<>> THEN <<>>
  ELSE LET amount == row.brands[Head(cols)]
           rest == RowBrandSales(row, Tail(cols), customer_id, purchase_month)
       IN IF AmountQualifies(amount)
            THEN <<BrandSale(0, Head(cols), customer_id, amount.v, purchase_month)>> \o rest
            ELSE rest

\* the request as it starts: the month is parsed before anything else
Begin(month_str, file) ==
  LET pm == parse_month_to_date(month_str) IN
  IF pm.ok
    THEN [IdleSession EXCEPT !.pc = "read",
                             !.purchase_month_str = month_str,
                             !.purchase_month = pm.date,
                             !.file = file,
                             !.before = {c.id : c \in customer}]
    ELSE [IdleSession EXCEPT !.pc = "done",
                             !.purchase_month_str = month_str,
                             !.file = file,
                             !.before = {c.id : c \in customer},
                             !.response = [NoResponse EXCEPT !.status_code = 400]]

ValidDates == {parse_month_to_date(t).date : t \in {u \in MonthTokens : parse_month_to_date(u).ok}}

\* the codes a file names, as the history records them
Trimmed(cell) == strip(str(cell))
DigitOnly(s) == s # <<>> /\ \A i \in DOMAIN s : s[i] \in Digits
Named(cell) == ~ cell.na /\ DigitOnly(Trimmed(cell))
FileCodes(file) == {Trimmed(file[i].CustomerCode) : i \in {j \in DOMAIN file : Named(file[j].CustomerCode)}}
AllCodes == UNION {FileCodes(<<r>>) : r \in Rows}

\* the lines (brand, amount) the rows of a code ask for
ExpectedLines(file, code) ==
  {<<p[1], file[p[2]].brands[p[1]].v>> : p \in
     {q \in BrandSet \X DOMAIN file :
        /\ Named(file[q[2]].CustomerCode)
        /\ Trimmed(file[q[2]].CustomerCode) = code
        /\ ~ file[q[2]].brands[q[1]].na
        /\ file[q[2]].brands[q[1]].v > 0}}

NoHistory == [status |-> "none", lines |-> {}]

Record(hist, pm, file, status) ==
  [k \in DOMAIN hist |->
     IF k[1] = pm /\ k[2] \in FileCodes(file)
       THEN [status |-> status, lines |-> ExpectedLines(file, k[2])]
       ELSE hist[k]]

NoPrev == [active |-> FALSE, customer |-> {}, brandsale |-> {}]

Init ==
  /\ customer = {}
  /\ brandsale = {}
  /\ sess = [s \in Sessions |-> IdleSession]
  /\ uploads = 0
  /\ latest = [k \in ValidDates \X AllCodes |-> NoHistory]
  /\ prev = NoPrev

\* POST /upload-month-data/: the request arrives and the month is parsed
StartUpload(s, month_str, file) ==
  /\ sess[s].pc = "idle"
  /\ uploads < MaxUploads
  /\ sess' = [sess EXCEPT ![s] = Begin(month_str, file)]
  /\ uploads' = uploads + 1
  /\ UNCHANGED <<customer, brandsale, latest, prev>>

\* the file is read and the codes of the file are collected
ReadFile(s) ==
  /\ sess[s].pc = "read"
  /\ sess' = [sess EXCEPT ![s] =
       [@ EXCEPT !.pc = "select",
                 !.df = sess[s].file,
                 !.cust_codes_in_file = CustCodesInFile(sess[s].file)]]
  /\ UNCHANGED <<customer, brandsale, uploads, latest, prev>>

\* the existing customers of the file are loaded in one query
SelectExisting(s) ==
  LET existing_customers == ExistingCustomers(customer, sess[s].cust_codes_in_file) IN
  /\ sess[s].pc = "select"
  /\ sess' = [sess EXCEPT ![s] =
       [@ EXCEPT !.pc = "delete",
                 !.customer_ids = {c.id : c \in existing_customers},
                 !.existing_cust_code_map = ExistingCustCodeMap(existing_customers)]]
  /\ UNCHANGED <<customer, brandsale, uploads, latest, prev>>

\* the month's lines of the existing customers of the file are deleted and
\* the delete is committed; the row loop starts
DeleteExisting(s) ==
  /\ sess[s].pc = "delete"
  /\ brandsale' =
       IF sess[s].customer_ids # {}
         THEN DeleteBrandSales(brandsale, sess[s].purchase_month, sess[s].customer_ids)
         ELSE brandsale
  /\ sess' = [sess EXCEPT ![s] =
       [@ EXCEPT !.pc = "loop",
                 !.idx = 1,
                 !.deleted = Cardinality(brandsale) - Cardinality(brandsale')]]
  /\ UNCHANGED <<customer, uploads, latest, prev>>

\* a row whose code is not all digits is skipped
SkipRow(s) ==
  /\ sess[s].pc = "loop"
  /\ sess[s].idx <= Len(sess[s].df)
  /\ ~ RowQualifies(sess[s].df[sess[s].idx])
  /\ sess' = [sess EXCEPT ![s] = [@ EXCEPT !.idx = @ + 1]]
  /\ UNCHANGED <<customer, brandsale, uploads, latest, prev>>

\* a row of an unseen code: a new Customer is added to the session
AddCustomer(s) ==
  LET row == sess[s].df[sess[s].idx]
      cust_code == strip(str(row.CustomerCode))
  IN
  /\ sess[s].pc = "loop"
  /\ sess[s].idx <= Len(sess[s].df)
  /\ RowQualifies(row)
  /\ cust_code \notin DOMAIN sess[s].existing_cust_code_map
  /\ sess' = [sess EXCEPT ![s] =
       [@ EXCEPT !.pc = "commit_cust",
                 !.cust = 0,
                 !.pending = [@ EXCEPT !.cust =
                    Append(@, [op |-> "insert", rec |-> NewCustomer(cust_code, row)])]]]
  /\ UNCHANGED <<customer, brandsale, uploads, latest, prev>>

\* a row of a known code: the Customer's fields are set in the session
UpdateCustomer(s) ==
  LET row == sess[s].df[sess[s].idx]
      cust_code == strip(str(row.CustomerCode))
  IN
  /\ sess[s].pc = "loop"
  /\ sess[s].idx <= Len(sess[s].df)
  /\ RowQualifies(row)
  /\ cust_code \in DOMAIN sess[s].existing_cust_code_map
  /\ LET id == sess[s].existing_cust_code_map[cust_code] IN
     sess' = [sess EXCEPT ![s] =
       [@ EXCEPT !.pc = "commit_cust",
                 !.cust = id,
                 !.pending = [@ EXCEPT !.cust =
                    Append(@, [op |-> "update",
                               rec |-> UpdatedCustomer(CustomerById(customer, id), row)])]]]
  /\ UNCHANGED <<customer, brandsale, uploads, latest, prev>>

\* mutant: the new Customer is not entered in existing_cust_code_map
CommitCustomer_NoMapUpdate(s) ==
  LET created == sess[s].cust = 0
      id == IF created THEN NextId(customer) ELSE sess[s].cust
  IN
  /\ sess[s].pc = "commit_cust"
  /\ customer' = FlushCustomers(customer, sess[s].pending.cust)
  /\ sess' = [sess EXCEPT ![s] =
       [@ EXCEPT !.pc = "lines",
                 !.cust = id,
                 !.pending = NoPending,
                 !.inserted_customers = IF created THEN @ + 1 ELSE @,
                 !.cust_commits = @ + 1]]
  /\ UNCHANGED <<brandsale, uploads, latest, prev>>

\* mutant: the new Customer is not refreshed after the commit, its id stays unset
CommitCustomer_NoRefresh(s) ==
  LET row == sess[s].df[sess[s].idx]
      cust_code == strip(str(row.CustomerCode))
      created == sess[s].cust = 0
  IN
  /\ sess[s].pc = "commit_cust"
  /\ customer' = FlushCustomers(customer, sess[s].pending.cust)
  /\ sess' = [sess EXCEPT ![s] =
       [@ EXCEPT !.pc = "lines",
                 !.pending = NoPending,
                 !.inserted_customers = IF created THEN @ + 1 ELSE @,
                 !.existing_cust_code_map =
                    IF created
                      THEN [c \in DOMAIN @ \cup {cust_code} |->
                              IF c = cust_code THEN 0 ELSE @[c]]
                      ELSE @,
                 !.cust_commits = @ + 1]]
  /\ UNCHANGED <<brandsale, uploads, latest, prev>>

\* session.commit() after the Customer write; a new Customer is refreshed,
\* counted and entered in the map
CommitCustomer(s) ==
  LET row == sess[s].df[sess[s].idx]
      cust_code == strip(str(row.CustomerCode))
      created == sess[s].cust = 0
      id == IF created THEN NextId(customer) ELSE sess[s].cust
  IN
  /\ sess[s].pc = "commit_cust"
  /\ customer' = FlushCustomers(customer, sess[s].pending.cust)
  /\ sess' = [sess EXCEPT ![s] =
       [@ EXCEPT !.pc = "lines",
                 !.cust = id,
                 !.pending = NoPending,
                 !.inserted_customers = IF created THEN @ + 1 ELSE @,
                 !.existing_cust_code_map =
                    IF created
                      THEN [c \in DOMAIN @ \cup {cust_code} |->
                              IF c = cust_code THEN id ELSE @[c]]
                      ELSE @,
                 !.cust_commits = @ + 1]]
  /\ UNCHANGED <<brandsale, uploads, latest, prev>>

\* mutant: the counter is raised once per brand column, outside the if
AddBrandSales_CountsColumns(s) ==
  LET row == sess[s].df[sess[s].idx]
      lines == RowBrandSales(row, brand_cols, sess[s].cust, sess[s].purchase_month)
  IN
  /\ sess[s].pc = "lines"
  /\ sess' = [sess EXCEPT ![s] =
       [@ EXCEPT !.pc = "commit_lines",
                 !.pending = [@ EXCEPT !.sales = lines],
                 !.inserted_brand_sales = @ + Len(brand_cols)]]
  /\ UNCHANGED <<customer, brandsale, uploads, latest, prev>>

\* one BrandSale per brand column with a positive amount is added to the session
AddBrandSales(s) ==
  LET row == sess[s].df[sess[s].idx]
      lines == RowBrandSales(row, brand_cols, sess[s].cust, sess[s].purchase_month)
  IN
  /\ sess[s].pc = "lines"
  /\ sess' = [sess EXCEPT ![s] =
       [@ EXCEPT !.pc = "commit_lines",
                 !.pending = [@ EXCEPT !.sales = lines],
                 !.inserted_brand_sales = @ + Len(lines)]]
  /\ UNCHANGED <<customer, brandsale, uploads, latest, prev>>

\* session.commit() at the end of the row
CommitBrandSales(s) ==
  /\ sess[s].pc = "commit_lines"
  /\ brandsale' = FlushBrandSales(brandsale, sess[s].pending.sales)
  /\ sess' = [sess EXCEPT ![s] =
       [@ EXCEPT !.pc = "loop",
                 !.idx = @ + 1,
                 !.pending = NoPending,
                 !.line_commits = @ + 1,
                 !.lines_written = @ + Cardinality(brandsale') - Cardinality(brandsale)]]
  /\ UNCHANGED <<customer, uploads, latest, prev>>

\* mutant: the except block commits what the session holds instead of rolling back
StorageFailure_Commits(s) ==
  /\ \/ sess[s].pc = "delete" /\ sess[s].customer_ids # {}
     \/ sess[s].pc \in {"commit_cust", "commit_lines"}
  /\ customer' = FlushCustomers(customer, sess[s].pending.cust)
  /\ brandsale' = FlushBrandSales(brandsale, sess[s].pending.sales)
  /\ sess' = [sess EXCEPT ![s] =
       [@ EXCEPT !.pc = "done",
                 !.pending = NoPending,
                 !.failed_at = sess[s].pc,
                 !.response = [NoResponse EXCEPT !.status_code = 500]]]
  /\ latest' = Record(latest, sess[s].purchase_month, sess[s].file, "failed")
  /\ UNCHANGED <<uploads, prev>>

\* a storage operation of the try block raises: rollback, log, HTTP 500
StorageFailure(s) ==
  /\ \/ sess[s].pc = "delete" /\ sess[s].customer_ids # {}
     \/ sess[s].pc \in {"commit_cust", "commit_lines"}
  /\ sess' = [sess EXCEPT ![s] =
       [@ EXCEPT !.pc = "done",
                 !.pending = Rollback(@),
                 !.failed_at = sess[s].pc,
                 !.response = [NoResponse EXCEPT !.status_code = 500]]]
  /\ latest' = Record(latest, sess[s].purchase_month, sess[s].file, "failed")
  /\ UNCHANGED <<customer, brandsale, uploads, prev>>

\* the loop is over: the counts are returned
FinishUpload(s) ==
  /\ sess[s].pc = "loop"
  /\ sess[s].idx > Len(sess[s].df)
  /\ sess' = [sess EXCEPT ![s] =
       [@ EXCEPT !.pc = "done",
                 !.response = [status_code |-> 200,
                               inserted_customers |-> sess[s].inserted_customers,
                               inserted_brand_sales |-> sess[s].inserted_brand_sales]]]
  /\ latest' = Record(latest, sess[s].purchase_month, sess[s].file, "ok")
  /\ UNCHANGED <<customer, brandsale, uploads, prev>>

\* the response is sent and the session of the request is released
Close(s) ==
  /\ sess[s].pc = "done"
  /\ sess' = [sess EXCEPT ![s] = IdleSession]
  /\ prev' = NoPrev
  /\ UNCHANGED <<customer, brandsale, uploads, latest>>

\* the client sends the request it has just been answered once more (once:
\* the repeat is not itself repeated)
Reupload(s) ==
  /\ sess[s].pc = "done"
  /\ sess[s].response.status_code = 200
  /\ ~ prev.active
  /\ sess' = [sess EXCEPT ![s] = Begin(sess[s].purchase_month_str, sess[s].file)]
  /\ prev' = [active |-> TRUE, customer |-> customer, brandsale |-> brandsale]
  /\ UNCHANGED <<customer, brandsale, uploads, latest>>

\* uploads one after another, each on the session of its request
Next ==
  \/ \E month_str \in MonthTokens, file \in Files : StartUpload(1, month_str, file)
  \/ ReadFile(1)
  \/ SelectExisting(1)
  \/ DeleteExisting(1)
  \/ SkipRow(1)
  \/ AddCustomer(1)
  \/ UpdateCustomer(1)
  \/ CommitCustomer(1)
  \/ AddBrandSales(1)
  \/ CommitBrandSales(1)
  \/ StorageFailure(1)
  \/ FinishUpload(1)
  \/ Close(1)
  \/ Reupload(1)

Spec == Init /\ [][Next]_vars

\* ------------------------------------------------------------- queries
\* no purchase_month parameter (None, or the empty string, which is falsy too)
NoMonth == <<>>

\* if purchase_month: pm_date = parse_month_to_date(purchase_month), 400 on
\* ValueError; else pm_date = None
MonthFilter(purchase_month) ==
  IF purchase_month = NoMonth
    THEN [ok |-> TRUE, filtered |-> FALSE, pm_date |-> NoDate]
    ELSE LET pm == parse_month_to_date(purchase_month) IN
         [ok |-> pm.ok, filtered |-> pm.ok, pm_date |-> pm.date]

\* where(BrandSale.purchase_month == pm_date), applied if pm_date
WhereMonth(table, f) ==
  IF f.filtered THEN {b \in table : b.purchase_month = f.pm_date} ELSE table

Min(a, b) == IF a <= b THEN a ELSE b

\* the sum of the amounts of a set of lines
RECURSIVE SumAmount(_)
SumAmount(lines) ==
  IF lines = {} THEN 0
  ELSE LET b == CHOOSE x \in lines : TRUE IN b.amount + SumAmount(lines \ {b})

\* the sum of a list of numbers
RECURSIVE sum(_)
sum(totals) == IF totals = <<>> THEN 0 ELSE Head(totals) + sum(Tail(totals))

\* ORDER BY brand_code: the brand codes of the files in ascending order
OrderByBrandCode == <<"BrandA", "BrandB">>

\* aggregate_dict after the loop over the rows ordered by brand_code: one item
\* per brand that has a row, in the order of first insertion
RECURSIVE AggregateItems(_, _)
AggregateItems(rows, codes) ==
  IF codes = <<>> THEN <<>>
  ELSE LET of_brand == {b \in rows : b.brand_code = Head(codes)}
           rest == AggregateItems(rows, Tail(codes))
       IN IF of_brand = {} THEN rest
          ELSE <<[brand_code |-> Head(codes), total_amount |-> SumAmount(of_brand)]>> \o rest

\* sorted(items, key=lambda x: x[1], reverse=True): stable, equal totals keep
\* their order
RECURSIVE sorted(_)
sorted(items) ==
  IF items = <<>> THEN <<>>
  ELSE LET n == Len(items)
           x == items[n]
           front == sorted(SubSeq(items, 1, n - 1))
           k == Cardinality({i \in DOMAIN front : front[i].total_amount >= x.total_amount})
       IN SubSeq(front, 1, k) \o <<x>> \o SubSeq(front, k + 1, Len(front))

\* items[offset: offset + limit], offset and limit not negative
Slice(items, offset, limit) == SubSeq(items, offset + 1, Min(offset + limit, Len(items)))

\* read_brands with aggregate=True: the response to GET /brands/
BrandsAggregate(table, purchase_month, offset, limit) ==
  LET f == MonthFilter(purchase_month) IN
  IF ~ f.ok THEN [status_code |-> 400, body |-> <<>>]
  ELSE [status_code |-> 200,
        body |-> Slice(sorted(AggregateItems(WhereMonth(table, f), OrderByBrandCode)), offset, limit)]

\* the orders in which a statement without ORDER BY can return a set of rows
AnyOrder(rows) ==
  {p \in [1..Cardinality(rows) -> rows] : \A i, j \in DOMAIN p : i # j => p[i] # p[j]}

\* LIMIT limit, limit not negative
Limit(rows, limit) == SubSeq(rows, 1, Min(limit, Len(rows)))

\* SELECT brand_code, sum(amount) AS total_amount ... GROUP BY brand_code
GroupByBrand(rows) ==
  {[brand_code |-> code, total_amount |-> SumAmount({b \in rows : b.brand_code = code})] :
     code \in {b.brand_code : b \in rows}}

TotalAmountOf(r) == r.total_amount

\* ORDER BY total_amount DESC: the row orders the statement allows (rows of
\* equal total come in any order)
OrderByTotalAmountDesc(rows) ==
  {p \in AnyOrder(rows) :
     \A i \in DOMAIN p : i > 1 => TotalAmountOf(p[i - 1]) >= TotalAmountOf(p[i])}

\* mutant: the month filter is not applied
TopBrands_AllMonths(table, limit, purchase_month) ==
  LET f == MonthFilter(purchase_month) IN
  IF ~ f.ok THEN {[status_code |-> 400, body |-> <<>>]}
  ELSE {[status_code |-> 200, body |-> Limit(p, limit)] :
          p \in OrderByTotalAmountDesc(GroupByBrand(table))}

\* top_brands: the responses GET /top-brands/ can give
TopBrands(table, limit, purchase_month) ==
  LET f == MonthFilter(purchase_month) IN
  IF ~ f.ok THEN {[status_code |-> 400, body |-> <<>>]}
  ELSE {[status_code |-> 200, body |-> Limit(p, limit)] :
          p \in OrderByTotalAmountDesc(GroupByBrand(WhereMonth(table, f)))}

\* the request of a read handler as its session holds it
Query(endpoint, purchase_month, offset, limit, reply) ==
  [IdleSession EXCEPT !.pc = "replied",
                      !.endpoint = endpoint,
                      !.purchase_month_str = purchase_month,
                      !.purchase_month = MonthFilter(purchase_month).pm_date,
                      !.offset = offset,
                      !.limit = limit,
                      !.response = [NoResponse EXCEPT !.status_code = reply.status_code],
                      !.body = reply.body]

\* GET /brands/ in aggregate mode
read_brands(s, purchase_month, offset, limit) ==
  /\ sess[s].pc = "idle"
  /\ sess' = [sess EXCEPT ![s] =
       Query("read_brands", purchase_month, offset, limit,
             BrandsAggregate(brandsale, purchase_month, offset, limit))]
  /\ UNCHANGED <<customer, brandsale, uploads, latest, prev>>

\* GET /top-brands/
top_brands(s, limit, purchase_month) ==
  /\ sess[s].pc = "idle"
  /\ \E reply \in TopBrands(brandsale, limit, purchase_month) :
       sess' = [sess EXCEPT ![s] = Query("top_brands", purchase_month, 0, limit, reply)]
  /\ UNCHANGED <<customer, brandsale, uploads, latest, prev>>

\* select(BrandSale.customer_id).where(purchase_month == pm_date).distinct()
CustIdsOfMonth(lines, pm_date) ==
  {b.customer_id : b \in {x \in lines : x.purchase_month = pm_date}}

\* the column total_bought of the selected Customer rows, one entry per row
RECURSIVE TotalBoughtColumn(_)
TotalBoughtColumn(rows) ==
  IF rows = {} THEN <<>>
  ELSE LET c == CHOOSE x \in rows : TRUE IN
       <<c.total_bought>> \o TotalBoughtColumn(rows \ {c})

\* mutant: the customers are joined to the month's lines, one row per line
TotalSalesSummary_PerLine(customers, lines, purchase_month) ==
  LET f == MonthFilter(purchase_month)
      joined == {<<c, b>> \in customers \X WhereMonth(lines, f) : b.customer_id = c.id}
      RECURSIVE Column(_)
      Column(rows) ==
        IF rows = {} THEN <<>>
        ELSE LET r == CHOOSE x \in rows : TRUE IN
             <<r[1].total_bought>> \o Column(rows \ {r})
      totals == IF f.filtered THEN Column(joined) ELSE TotalBoughtColumn(customers)
  IN
  IF ~ f.ok THEN [status_code |-> 400, body |-> <<>>]
  ELSE [status_code |-> 200,
        body |-> [total_sales_all_customers |-> IF totals # <<>> THEN sum(totals) ELSE 0]]

\* total_sales_summary: the response to GET /summary/total_sales
TotalSalesSummary(customers, lines, purchase_month) ==
  LET f == MonthFilter(purchase_month)
      cust_ids == CustIdsOfMonth(lines, f.pm_date)
      totals == TotalBoughtColumn(IF f.filtered
                                    THEN {c \in customers : c.id \in cust_ids}
                                    ELSE customers)
  IN
  IF ~ f.ok THEN [status_code |-> 400, body |-> <<>>]
  ELSE [status_code |-> 200,
        body |-> [total_sales_all_customers |-> IF totals # <<>> THEN sum(totals) ELSE 0]]

\* GET /summary/total_sales
total_sales_summary(s, purchase_month) ==
  /\ sess[s].pc = "idle"
  /\ sess' = [sess EXCEPT ![s] =
       Query("total_sales_summary", purchase_month, 0, 0,
             TotalSalesSummary(customer, brandsale, purchase_month))]
  /\ UNCHANGED <<customer, brandsale, uploads, latest, prev>>

TotalBoughtOf(c) == c.total_bought

\* ORDER BY total_bought DESC: the row orders the statement allows
OrderByTotalBoughtDesc(rows) ==
  {p \in AnyOrder(rows) :
     \A i \in DOMAIN p : i > 1 => TotalBoughtOf(p[i - 1]) >= TotalBoughtOf(p[i])}

\* mutant: the customers are not restricted to those of the month
TopCustomers_AllCustomers(customers, lines, limit, purchase_month) ==
  LET f == MonthFilter(purchase_month) IN
  IF ~ f.ok THEN {[status_code |-> 400, body |-> <<>>]}
  ELSE {[status_code |-> 200, body |-> Limit(p, limit)] :
          p \in OrderByTotalBoughtDesc(customers)}

\* top_customers: the responses GET /top-customers/ can give
TopCustomers(customers, lines, limit, purchase_month) ==
  LET f == MonthFilter(purchase_month)
      cust_ids == CustIdsOfMonth(lines, f.pm_date)
  IN
  IF ~ f.ok THEN {[status_code |-> 400, body |-> <<>>]}
  ELSE IF f.filtered /\ cust_ids = {} THEN {[status_code |-> 200, body |-> <<>>]}
  ELSE {[status_code |-> 200, body |-> Limit(p, limit)] :
          p \in OrderByTotalBoughtDesc(IF f.filtered
                                         THEN {c \in customers : c.id \in cust_ids}
                                         ELSE customers)}

\* GET /top-customers/
top_customers(s, limit, purchase_month) ==
  /\ sess[s].pc = "idle"
  /\ \E reply \in TopCustomers(customer, brandsale, limit, purchase_month) :
       sess' = [sess EXCEPT ![s] = Query("top_customers", purchase_month, 0, limit, reply)]
  /\ UNCHANGED <<customer, brandsale, uploads, latest, prev>>

\* the response of a read handler is sent and its session is released
Respond(s) ==
  /\ sess[s].pc = "replied"
  /\ sess' = [sess EXCEPT ![s] = IdleSession]
  /\ UNCHANGED <<customer, brandsale, uploads, latest, prev>>

\* the parameters of the read requests
QueryMonths == {NoMonth, Tok202401, Tok202402, Tok202413}
Limits == 0..MaxLimit
Offsets == {0, 1}

\* uploads and read requests one after another
NextQuery ==
  \/ Next
  \/ \E purchase_month \in QueryMonths, offset \in Offsets, limit \in Limits :
       read_brands(1, purchase_month, offset, limit)
  \/ \E purchase_month \in QueryMonths, limit \in Limits :
       top_brands(1, limit, purchase_month)
  \/ \E purchase_month \in QueryMonths : total_sales_summary(1, purchase_month)
  \/ \E purchase_month \in QueryMonths, limit \in Limits :
       top_customers(1, limit, purchase_month)
  \/ Respond(1)

SpecQuery == Init /\ [][NextQuery]_vars

\* ------------------------------------------------------------- concurrency
\* requests of several clients, each on the session of its own request; a
\* step of a session is one of the handler's storage operations, so sessions
\* interleave at the commits
ConcurrentFiles == {<<RowA>>, <<RowA0>>, <<RowText, RowB>>}
ConcurrentMonths == {Tok202401, Tok202402}

\* POST /upload-month-data/ of one of the clients: one upload to fill the
\* store and a pair of uploads in flight together
StartConcurrentUpload(s, month_str, file) ==
  /\ sess[s].pc = "idle"
  /\ uploads < MaxUploads + 1
  /\ sess' = [sess EXCEPT ![s] = Begin(month_str, file)]
  /\ uploads' = uploads + 1
  /\ UNCHANGED <<customer, brandsale, latest, prev>>

NextConcurrent ==
  \E s \in Sessions :
    \/ \E month_str \in ConcurrentMonths, file \in ConcurrentFiles :
         StartConcurrentUpload(s, month_str, file)
    \/ ReadFile(s)
    \/ SelectExisting(s)
    \/ DeleteExisting(s)
    \/ SkipRow(s)
    \/ AddCustomer(s)
    \/ UpdateCustomer(s)
    \/ CommitCustomer(s)
    \/ AddBrandSales(s)
    \/ CommitBrandSales(s)
    \/ StorageFailure(s)
    \/ FinishUpload(s)
    \/ Close(s)

SpecConcurrent == Init /\ [][NextConcurrent]_vars

\* ------------------------------------------------------------- properties
Quiet == \A s \in Sessions : sess[s].pc \in {"idle", "done"}

IdsOfCode(code) == {c.id : c \in {d \in customer : d.customer_code = code}}
CodeOfId(id) == CustomerById(customer, id).customer_code
LinesOf(table, pm, ids) == {b \in table : b.purchase_month = pm /\ b.customer_id \in ids}
StoredLines(pm, code) ==
  {<<b.brand_code, b.amount>> : b \in LinesOf(brandsale, pm, IdsOfCode(code))}
Succeeded(s) == sess[s].pc = "done" /\ sess[s].response.status_code = 200
Failed(s) == sess[s].pc = "done" /\ sess[s].response.status_code = 500

\* C1 as stated: between uploads, the stored lines of every customer and month
\* are exactly the lines of the customer's rows in the most recent upload of
\* that month that named the customer, whether or not that upload succeeded.
C1_ReplacementAnyUpload ==
  Quiet =>
    \A k \in DOMAIN latest :
      IdsOfCode(k[2]) # {} => StoredLines(k[1], k[2]) = latest[k].lines

\* C1 amended: between uploads, for every month and customer whose most recent
\* upload of that month naming the customer succeeded, the stored lines are
\* exactly the lines of the customer's rows in that upload; a customer no upload
\* of the month has named has no lines in it.
C1_Replacement ==
  Quiet =>
    \A k \in DOMAIN latest :
      latest[k].status # "failed" => StoredLines(k[1], k[2]) = latest[k].lines

\* a successful upload has replaced the two lines of customer 1001 by one
C1_Witness ==
  \E s \in Sessions :
    /\ Succeeded(s)
    /\ sess[s].file = <<RowA0>>
    /\ sess[s].deleted = 2
    /\ StoredLines(sess[s].purchase_month, Code1001) = {<<"BrandB", 20000>>}

\* C2: a successful second run of the same (month, file) leaves the Customer
\* table as the first run left it, the same number of lines per customer and
\* month, and reports no created customer.
C2_Idempotent ==
  \A s \in Sessions :
    (Succeeded(s) /\ prev.active) =>
      /\ customer = prev.customer
      /\ \A c \in customer, pm \in ValidDates :
           Cardinality(LinesOf(brandsale, pm, {c.id})) =
             Cardinality(LinesOf(prev.brandsale, pm, {c.id}))
      /\ Cardinality(brandsale) = Cardinality(prev.brandsale)
      /\ sess[s].response.inserted_customers = 0

\* the second run of a file with two rows of one code has succeeded
C2_Witness ==
  \E s \in Sessions :
    /\ Succeeded(s)
    /\ prev.active
    /\ sess[s].file = <<RowA, RowA0>>
    /\ Cardinality(brandsale) = 3

\* C3: no step of an upload changes the Customer record or any stored line of
\* a customer whose code is not in the upload's file.
C3_CustomerIsolation ==
  [][\A s \in Sessions :
       sess[s].pc # "idle" =>
         \A c \in customer :
           c.customer_code \notin FileCodes(sess[s].file) =>
             /\ c \in customer'
             /\ {b \in brandsale : b.customer_id = c.id} =
                  {b \in brandsale' : b.customer_id = c.id}]_vars

\* an upload naming only 1001 has deleted lines of its month, and customer
\* 1002 still has a line of that month
C3_Witness ==
  \E s \in Sessions :
    /\ Succeeded(s)
    /\ FileCodes(sess[s].file) = {Code1001}
    /\ sess[s].deleted > 0
    /\ LinesOf(brandsale, sess[s].purchase_month, IdsOfCode(Code1002)) # {}

\* C4: no step of an upload for month M, failing or not, changes the set of
\* stored lines of any other month.
C4_MonthIsolation ==
  [][\A s \in Sessions :
       sess[s].pc # "idle" =>
         {b \in brandsale : b.purchase_month # sess[s].purchase_month} =
           {b \in brandsale' : b.purchase_month # sess[s].purchase_month}]_vars

\* an upload has failed in the row loop after its delete, and a customer of
\* its file has a line of another month
C4_Witness ==
  \E s \in Sessions :
    /\ Failed(s)
    /\ sess[s].failed_at = "commit_lines"
    /\ sess[s].customer_ids # {}
    /\ \E b \in brandsale :
         /\ b.purchase_month # sess[s].purchase_month
         /\ b.customer_id \in sess[s].customer_ids

\* C5 as stated: in every committed state the Customer writes and the line
\* writes of the rows of an upload have been committed together, row by row.
C5_RowAtomicCommit ==
  \A s \in Sessions : sess[s].cust_commits = sess[s].line_commits

\* the number of positive brand cells of the qualifying rows before row k
RECURSIVE LinesBefore(_, _)
LinesBefore(file, k) ==
  IF k <= 1 THEN 0
  ELSE LinesBefore(file, k - 1) +
       (IF Named(file[k - 1].CustomerCode)
          THEN Cardinality({b \in BrandSet :
                 ~ file[k - 1].brands[b].na /\ file[k - 1].brands[b].v > 0})
          ELSE 0)

CodesBefore(file, k) ==
  {Trimmed(file[j].CustomerCode) :
     j \in {i \in 1..(k - 1) : Named(file[i].CustomerCode)}}

\* C6: after a storage failure at row k of the row loop the response is the
\* opaque 500, nothing is pending, the lines stored for the month and the
\* customers of the file are those of the rows before k, and the customers
\* created are those of the rows before k (and of row k when its Customer
\* write had been committed before the failure).
C6_PartialFailure ==
  \A s \in Sessions :
    (sess[s].pc = "done" /\ sess[s].failed_at \in {"commit_cust", "commit_lines"}) =>
      LET file == sess[s].file
          k == sess[s].idx
          old == {c.customer_code : c \in {d \in customer : d.id \in sess[s].before}}
          new == {c.customer_code : c \in {d \in customer : d.id \notin sess[s].before}}
      IN
      /\ sess[s].response = [NoResponse EXCEPT !.status_code = 500]
      /\ sess[s].pending = NoPending
      /\ sess[s].before \subseteq {c.id : c \in customer}
      /\ Cardinality({b \in brandsale :
            /\ b.purchase_month = sess[s].purchase_month
            /\ CodeOfId(b.customer_id) \in FileCodes(file)}) = LinesBefore(file, k)
      /\ new = (CodesBefore(file, IF sess[s].failed_at = "commit_lines" THEN k + 1 ELSE k)) \ old

\* the commit of the second row's lines has failed after the first row's
\* lines were committed
C6_Witness ==
  \E s \in Sessions :
    /\ Failed(s)
    /\ sess[s].failed_at = "commit_lines"
    /\ sess[s].file = <<RowA, RowB>>
    /\ sess[s].idx = 2
    /\ Cardinality(brandsale) = 2
    /\ Cardinality(customer) = 2

\* a month token of the shape YYYY-M or YYYY-MM with a month of 1 to 12
WellFormedMonth(tok) ==
  /\ Len(tok) \in {6, 7}
  /\ \A i \in 1..4 : tok[i] \in Digits
  /\ \E i \in 1..4 : tok[i] # "0"
  /\ tok[5] = "-"
  /\ LET m == IF Len(tok) = 6 THEN DigitVal(tok[6])
              ELSE IF tok[6] \in Digits /\ tok[7] \in Digits
                     THEN 10 * DigitVal(tok[6]) + DigitVal(tok[7])
                     ELSE 0
     IN /\ \A i \in 6..Len(tok) : tok[i] \in Digits
        /\ m \in 1..12

C8_Codes ==
  \A s \in Sessions :
    (sess[s].pc \notin {"idle", "read"} /\ sess[s].response.status_code # 400) =>
      sess[s].cust_codes_in_file = FileCodes(sess[s].file)

\* the loop's step at a row whose code is blank, missing or not all digits
C8_Step ==
  \A s \in Sessions :
    (/\ sess[s].pc = "loop"
     /\ sess[s].idx <= Len(sess[s].df)
     /\ ~ Named(sess[s].df[sess[s].idx].CustomerCode)) =>
      /\ customer' = customer
      /\ brandsale' = brandsale
      /\ sess'[s] = [sess[s] EXCEPT !.idx = @ + 1]

\* what a successful upload reports and creates is what the rows with an
\* all-digit code alone account for
C8_Result ==
  \A s \in Sessions :
    Succeeded(s) =>
      /\ sess[s].response.inserted_brand_sales =
           LinesBefore(sess[s].file, Len(sess[s].file) + 1)
      /\ {c.customer_code : c \in {d \in customer : d.id \notin sess[s].before}} =
           FileCodes(sess[s].file) \
             {c.customer_code : c \in {d \in customer : d.id \in sess[s].before}}

\* C8: a row whose code cell is blank, missing or not all digits adds no code
\* to the set the select and the delete work on, the loop passes it without a
\* write, a pending write, a count or an error, and the counts and customers
\* of a successful upload are those of the other rows alone.
C8_RowFiltering == []C8_Codes /\ []C8_Result /\ [][C8_Step]_vars

\* an upload with a float-looking code, a missing and a blank code among its
\* rows has succeeded with nothing created
C8_Witness ==
  \E s \in Sessions :
    /\ Succeeded(s)
    /\ sess[s].file \in {<<RowText, RowNaN>>, <<RowNaN, RowBlank>>, <<RowBlank, RowText>>}
    /\ sess[s].response = [NoResponse EXCEPT !.status_code = 200]
    /\ customer = {}

\* C9: every stored line has a positive amount, and the lines a row adds are
\* one per brand column whose cell is present and greater than zero, with the
\* cell's amount, and none for any other column.
C9_PositiveAmounts ==
  /\ \A b \in brandsale : b.amount > 0
  /\ \A s \in Sessions :
       sess[s].pc = "commit_lines" =>
         \A col \in BrandSet :
           LET cell == sess[s].df[sess[s].idx].brands[col]
               added == {i \in DOMAIN sess[s].pending.sales :
                           sess[s].pending.sales[i].brand_code = col}
           IN IF ~ cell.na /\ cell.v > 0
                THEN /\ Cardinality(added) = 1
                     /\ \A i \in added : sess[s].pending.sales[i].amount = cell.v
                ELSE added = {}

\* the re-upload with BrandA 0 has left customer 1001 one line of the month,
\* where the upload before had left two
C9_Witness ==
  \E s \in Sessions :
    /\ Succeeded(s)
    /\ sess[s].file = <<RowA0>>
    /\ sess[s].deleted = 2
    /\ sess[s].response.inserted_brand_sales = 1
    /\ \A b \in LinesOf(brandsale, sess[s].purchase_month, IdsOfCode(Code1001)) :
         b.brand_code = "BrandB"
    /\ Cardinality(LinesOf(brandsale, sess[s].purchase_month, IdsOfCode(Code1001))) = 1

\* C10: a successful upload reports as created customers the number of
\* Customer records that were not there before it, and as created lines the
\* number of lines it wrote, which is the number of lines stored for its month
\* over the customers of its file; the one-row example reports 1 and 2 on an
\* empty store, and a second run of an upload reports no created customer.
C10_ResultCounts ==
  \A s \in Sessions :
    Succeeded(s) =>
      /\ sess[s].response.inserted_customers =
           Cardinality({c \in customer : c.id \notin sess[s].before})
      /\ sess[s].response.inserted_brand_sales = sess[s].lines_written
      /\ sess[s].response.inserted_brand_sales =
           Cardinality({b \in brandsale :
              /\ b.purchase_month = sess[s].purchase_month
              /\ CodeOfId(b.customer_id) \in FileCodes(sess[s].file)})
      /\ (sess[s].before = {} /\ sess[s].file = <<RowA>>) =>
           /\ sess[s].response.inserted_customers = 1
           /\ sess[s].response.inserted_brand_sales = 2
      /\ prev.active => sess[s].response.inserted_customers = 0

\* the one-row example has been uploaded a second time
C10_Witness ==
  \E s \in Sessions :
    /\ Succeeded(s)
    /\ prev.active
    /\ sess[s].file = <<RowA>>
    /\ sess[s].response.inserted_customers = 0
    /\ sess[s].response.inserted_brand_sales = 2
    /\ Cardinality(customer) = 1

\* C11 as stated: between uploads there is exactly one Customer for every
\* all-digit code that a file of any upload has named, whether or not that
\* upload reached the code's row.
C11_OneCustomerPerFileCode ==
  Quiet =>
    \A k \in DOMAIN latest :
      latest[k].status # "none" => Cardinality(IdsOfCode(k[2])) = 1

\* no code has two Customer records
C11_AtMostOne ==
  \A code \in {c.customer_code : c \in customer} : Cardinality(IdsOfCode(code)) = 1

\* every code of the file of a successful upload has its Customer
C11_Created ==
  \A s \in Sessions :
    Succeeded(s) =>
      \A code \in FileCodes(sess[s].file) : Cardinality(IdsOfCode(code)) = 1

\* no step removes a Customer or gives one another id or code
C11_Grows ==
  \A c \in customer :
    \E d \in customer' : d.id = c.id /\ d.customer_code = c.customer_code

\* C11 amended: in uploads run one after another no code ever has two Customer
\* records, every all-digit code of the file of a successful upload has exactly
\* one (an existing one is updated in place under its id), and no step of any
\* upload deletes a Customer: the set of Customer ids only grows.
C11_CustomerLifecycle == []C11_AtMostOne /\ []C11_Created /\ [][C11_Grows]_vars

\* an upload naming the one existing customer has succeeded and the customer
\* is still the only one, under the id it was created with
C11_Witness ==
  \E s \in Sessions :
    /\ Succeeded(s)
    /\ sess[s].file = <<RowA0, RowText>>
    /\ sess[s].before = {1}
    /\ {c.id : c \in customer} = {1}
    /\ IdsOfCode(Code1001) = {1}

Range(f) == {f[i] : i \in DOMAIN f}
NonIncreasing(totals) ==
  \A i \in DOMAIN totals : i > 1 => totals[i - 1] >= totals[i]
TotalAmounts(items) == [i \in DOMAIN items |-> items[i].total_amount]
TotalsBought(items) == [i \in DOMAIN items |-> items[i].total_bought]

\* the stored lines a query with the month parameter of session s is about
LinesInScope(s) ==
  IF sess[s].purchase_month_str = NoMonth THEN brandsale
  ELSE {b \in brandsale : b.purchase_month = sess[s].purchase_month}

RECURSIVE SumTotalBought(_)
SumTotalBought(cs) ==
  IF cs = {} THEN 0
  ELSE LET c == CHOOSE x \in cs : TRUE IN c.total_bought + SumTotalBought(cs \ {c})

\* C13: total_sales_summary with a month M answers the sum of total_bought
\* over the customers that have at least one stored line in M, each counted
\* once however many lines it has, and 0 when no customer has one; without a
\* month it answers the sum over all customers.
C13_TotalSales ==
  \A s \in Sessions :
    (/\ sess[s].pc = "replied"
     /\ sess[s].endpoint = "total_sales_summary"
     /\ sess[s].response.status_code = 200) =>
      LET withLine == {c \in customer :
                         \E b \in brandsale :
                           b.customer_id = c.id /\ b.purchase_month = sess[s].purchase_month}
          answer == sess[s].body.total_sales_all_customers
      IN IF sess[s].purchase_month_str = NoMonth
           THEN answer = SumTotalBought(customer)
           ELSE /\ answer = SumTotalBought(withLine)
                /\ withLine = {} => answer = 0

\* the summary of a month has been answered in which customer 1001 has two
\* lines and is counted once, while customer 1002 has lines of another month only
C13_Witness ==
  \E s \in Sessions :
    /\ sess[s].pc = "replied"
    /\ sess[s].endpoint = "total_sales_summary"
    /\ sess[s].purchase_month_str = Tok202401
    /\ Cardinality(LinesOf(brandsale, sess[s].purchase_month, IdsOfCode(Code1001))) = 2
    /\ LinesOf(brandsale, sess[s].purchase_month, IdsOfCode(Code1002)) = {}
    /\ IdsOfCode(Code1002) # {}
    /\ sess[s].body.total_sales_all_customers = 50000

\* C14 as stated: when two uploads of the same month that both found customer
\* c in the store have completed, the stored lines of c for the month are the
\* lines of c's rows in one of the two files, and not lines of both.
C14_NoMerge ==
  (/\ Succeeded(1)
   /\ Succeeded(2)
   /\ sess[1].purchase_month = sess[2].purchase_month) =>
    \A id \in sess[1].customer_ids \cap sess[2].customer_ids :
      \E s \in {1, 2} :
        LET mine == ExpectedLines(sess[s].file, CodeOfId(id)) IN
        /\ StoredLines(sess[s].purchase_month, CodeOfId(id)) = mine
        /\ Cardinality(LinesOf(brandsale, sess[s].purchase_month, {id})) = Cardinality(mine)

\* C15 as stated: when two uploads whose files both name a code that no
\* Customer had when they started have completed, at most one Customer has
\* that code.
C15_OneCustomerPerCode ==
  (Succeeded(1) /\ Succeeded(2)) =>
    \A code \in FileCodes(sess[1].file) \cap FileCodes(sess[2].file) :
      (\A id \in IdsOfCode(code) : id \notin sess[1].before \cup sess[2].before) =>
        Cardinality(IdsOfCode(code)) <= 1

\* every cell of the row but the code is missing
AllOtherMissing(row) ==
  /\ row.Salesman.na
  /\ row.Total.na
  /\ row.count.na
  /\ \A b \in BrandSet : row.brands[b].na

\* the commit of a row's Customer write, and the steps of a row with nothing
\* but its code
C16_Step ==
  \A s \in Sessions :
    LET row == sess[s].df[sess[s].idx]
        code == Trimmed(row.CustomerCode)
        old == {c \in customer : c.customer_code = code}
        new == {c \in customer' : c.customer_code = code}
    IN
    /\ (sess[s].pc = "commit_cust" /\ sess'[s].pc = "lines") =>
         /\ Cardinality(new) = 1
         /\ {c \in customer : c.customer_code # code} = {c \in customer' : c.customer_code # code}
         /\ \A n \in new :
              IF old = {}
                THEN /\ n.id \notin {c.id : c \in customer}
                     /\ n.salesman = (IF row.Salesman.na THEN None ELSE row.Salesman.v)
                     /\ n.total_bought = (IF row.Total.na THEN 0 ELSE row.Total.v)
                     /\ n.brand_count = (IF row.count.na THEN 0 ELSE row.count.v)
                     /\ AllOtherMissing(row) =>
                          n = Customer(n.id, code, None, 0, 0)
                ELSE \A o \in old :
                     /\ n.id = o.id
                     /\ n.salesman = (IF row.Salesman.na THEN o.salesman ELSE row.Salesman.v)
                     /\ n.total_bought = (IF row.Total.na THEN o.total_bought ELSE row.Total.v)
                     /\ n.brand_count = (IF row.count.na THEN o.brand_count ELSE row.count.v)
                     /\ AllOtherMissing(row) => customer' = customer
    /\ (/\ sess[s].pc \in {"loop", "commit_cust", "lines", "commit_lines"}
        /\ sess[s].idx <= Len(sess[s].df)
        /\ Named(row.CustomerCode)
        /\ AllOtherMissing(row)) =>
         /\ brandsale' = brandsale
         /\ sess'[s].inserted_brand_sales = sess[s].inserted_brand_sales
         /\ sess'[s].pending.sales = <<>>

\* C16: the commit of a row's Customer write leaves, for a code already
\* stored, each of salesman, total_bought and brand_count at the row's cell
\* when the cell is present and at its stored value when the cell is missing,
\* and for an unseen code one new Customer with the row's cells and None, 0, 0
\* for the missing ones; no other Customer changes. A row with a numeric code
\* and every other cell missing creates a zeroed Customer or leaves the stored
\* one as it is, and adds no line.
C16_FieldwiseUpsert == [][C16_Step]_vars

\* a row with nothing but its code has been uploaded for a customer that an
\* earlier upload had given a salesman and a total: the fields are kept
C16_Witness ==
  \E s \in Sessions :
    /\ Succeeded(s)
    /\ sess[s].file = <<RowBare>>
    /\ sess[s].before = {1}
    /\ customer = {Customer(1, Code1002, "Bob", 30000, 1)}
    /\ sess[s].response.inserted_brand_sales = 0

\* C17: top_customers answers at most limit customers in non-increasing order
\* of total_bought; with a month M every customer answered has a stored line
\* in M, no customer with a line in M and a total_bought strictly larger than
\* that of a customer answered is left out, and the answer is empty when M has
\* no lines.
C17_TopCustomers ==
  \A s \in Sessions :
    (/\ sess[s].pc = "replied"
     /\ sess[s].endpoint = "top_customers"
     /\ sess[s].response.status_code = 200) =>
      LET top == sess[s].body
          inMonth == {c \in customer :
                        \E b \in brandsale :
                          b.customer_id = c.id /\ b.purchase_month = sess[s].purchase_month}
      IN
      /\ Len(top) <= sess[s].limit
      /\ NonIncreasing(TotalsBought(top))
      /\ Range(top) \subseteq customer
      /\ sess[s].purchase_month_str # NoMonth =>
           /\ Range(top) \subseteq inMonth
           /\ \A c \in inMonth \ Range(top), r \in Range(top) :
                ~ (c.total_bought > r.total_bought)
           /\ (\A b \in brandsale : b.purchase_month # sess[s].purchase_month) => top = <<>>

\* with limit 1, top_customers has answered the customer with the larger total
\* of the two that have lines in the month
C17_Witness ==
  \E s \in Sessions :
    /\ sess[s].pc = "replied"
    /\ sess[s].endpoint = "top_customers"
    /\ sess[s].purchase_month_str = Tok202402
    /\ sess[s].limit = 1
    /\ Len(sess[s].body) = 1
    /\ sess[s].body[1].customer_code = Code1001
    /\ LinesOf(brandsale, sess[s].purchase_month, IdsOfCode(Code1002)) # {}

\* C18 as stated: after any upload that has ended in the 500 response, every
\* customer that was in the store and in the file and whose row had not been
\* reached has no stored line of the upload's month.
C18_AnyFailureDeletes ==
  \A s \in Sessions :
    Failed(s) =>
      \A id \in sess[s].customer_ids :
        CodeOfId(id) \notin CodesBefore(sess[s].file, sess[s].idx) =>
          LinesOf(brandsale, sess[s].purchase_month, {id}) = {}

\* C18 amended: the delete is committed before the row loop, so after an
\* upload that has failed in the row loop every customer that was in the store
\* and in the file and whose row had not been committed before the failure has
\* no stored line of the upload's month, although no line of the file has
\* replaced the deleted ones. An upload whose delete itself fails changes
\* nothing.
C18_FailureAfterDelete ==
  \A s \in Sessions :
    /\ (Failed(s) /\ sess[s].failed_at \in {"commit_cust", "commit_lines"}) =>
         \A id \in sess[s].customer_ids :
           CodeOfId(id) \notin CodesBefore(sess[s].file, sess[s].idx) =>
             LinesOf(brandsale, sess[s].purchase_month, {id}) = {}
    /\ (Failed(s) /\ sess[s].failed_at = "delete") => sess[s].deleted = 0

\* the upload of a file naming customers 1002 and 1001 has failed at its first
\* row after deleting the two lines customer 1001 had in the month
C18_Witness ==
  \E s \in Sessions :
    /\ Failed(s)
    /\ sess[s].failed_at = "commit_cust"
    /\ sess[s].file = <<RowB, RowA>>
    /\ sess[s].idx = 1
    /\ sess[s].deleted = 2
    /\ IdsOfCode(Code1001) \subseteq sess[s].customer_ids
    /\ IdsOfCode(Code1001) # {}
    /\ LinesOf(brandsale, sess[s].purchase_month, IdsOfCode(Code1001)) = {}

\* the first day of the month a well-formed token names
FirstDayOf(tok) ==
  [year |-> 1000 * DigitVal(tok[1]) + 100 * DigitVal(tok[2]) + 10 * DigitVal(tok[3]) + DigitVal(tok[4]),
   month |-> IF Len(tok) = 6 THEN DigitVal(tok[6]) ELSE 10 * DigitVal(tok[6]) + DigitVal(tok[7]),
   day |-> 1]

\* every stored line belongs to a stored Customer and is dated the first day
\* of a month; the lines a session is about to commit belong to a stored
\* Customer and are dated the first day of the upload's month
C19_Stored ==
  /\ \A b \in brandsale :
       /\ \E c \in customer : c.id = b.customer_id
       /\ b.purchase_month.day = 1
       /\ b.purchase_month.month \in 1..12
  /\ \A s \in Sessions :
       sess[s].pc = "commit_lines" =>
         \A i \in DOMAIN sess[s].pending.sales :
           /\ \E c \in customer : c.id = sess[s].pending.sales[i].customer_id
           /\ sess[s].pending.sales[i].purchase_month = FirstDayOf(sess[s].purchase_month_str)

\* the lines a step of an upload adds to the store are dated the first day of
\* the upload's month
C19_Inserted ==
  \A s \in Sessions :
    sess[s].pc = "commit_lines" =>
      \A b \in brandsale' \ brandsale :
        b.purchase_month = FirstDayOf(sess[s].purchase_month_str)

\* C19: in every committed state, whatever uploads have succeeded or failed,
\* the customer_id of every stored line is the id of a stored Customer, and
\* every line an upload of month M inserts is dated the first day of M.
C19_ReferentialIntegrity == []C19_Stored /\ [][C19_Inserted]_vars

\* an upload of the month written 2024-1 has failed at its second row, and the
\* lines of its first row are stored under 1 January 2024 for a stored Customer
C19_Witness ==
  \E s \in Sessions :
    /\ Failed(s)
    /\ sess[s].failed_at = "commit_lines"
    /\ sess[s].purchase_month_str = Tok20241
    /\ sess[s].file = <<RowA, RowB>>
    /\ sess[s].lines_written = 2
    /\ \E b \in brandsale :
         /\ b.purchase_month = [year |-> 2024, month |-> 1, day |-> 1]
         /\ b.customer_id \in IdsOfCode(Code1001)

\* the rows of a file that name a code
RowsOfCode(file, code) ==
  {i \in DOMAIN file : Named(file[i].CustomerCode) /\ Trimmed(file[i].CustomerCode) = code}

\* the last present cell of a column over the rows of a code, or the default
LastCell(file, code, column, default) ==
  LET present == {i \in RowsOfCode(file, code) : ~ file[i][column].na} IN
  IF present = {} THEN default ELSE file[Max(present)][column].v

\* C20: after a successful upload, every code of the file that no Customer had
\* before, in however many rows it appears, has exactly one Customer, counted
\* once in the reported number of created customers; each field of it is the
\* last present cell of the code's rows (None, 0, 0 when all are missing); and
\* its lines of the month are one per positive brand cell of each of the
\* code's rows, so a brand has as many lines as rows with a positive cell.
C20_DuplicateCodes ==
  \A s \in Sessions :
    Succeeded(s) =>
      LET file == sess[s].file
          unseen == {code \in FileCodes(file) : IdsOfCode(code) \cap sess[s].before = {}}
      IN
      /\ sess[s].response.inserted_customers = Cardinality(unseen)
      /\ \A code \in unseen :
           /\ Cardinality(IdsOfCode(code)) = 1
           /\ \A c \in customer :
                c.customer_code = code =>
                  /\ c.salesman = LastCell(file, code, "Salesman", None)
                  /\ c.total_bought = LastCell(file, code, "Total", 0)
                  /\ c.brand_count = LastCell(file, code, "count", 0)
                  /\ \A b \in BrandSet :
                       Cardinality({l \in LinesOf(brandsale, sess[s].purchase_month, {c.id}) :
                                      l.brand_code = b}) =
                         Cardinality({i \in RowsOfCode(file, code) :
                                        ~ file[i].brands[b].na /\ file[i].brands[b].v > 0})
           /\ StoredLines(sess[s].purchase_month, code) = ExpectedLines(file, code)

\* a first upload whose two rows both name the unseen code 1001 has succeeded:
\* one Customer, one created customer reported, and two lines of BrandB
C20_Witness ==
  \E s \in Sessions :
    /\ Succeeded(s)
    /\ ~ prev.active
    /\ sess[s].file = <<RowA, RowA0>>
    /\ sess[s].before = {}
    /\ sess[s].response.inserted_customers = 1
    /\ customer = {Customer(1, Code1001, "Ann", 50000, 2)}
    /\ Cardinality({l \in brandsale : l.brand_code = "BrandB" /\ l.customer_id = 1}) = 2

====
